---------------------------- MODULE Spec2Model ----------------------------
(***************************************************************************)
(* Model of the go_blog server: the Markdown-post pipeline (front-matter   *)
(* split, metadata decode, Markdown conversion, post assembly) and the     *)
(* HTTP handlers that drive it.                                            *)
(*                                                                         *)
(* The repository holds two builds of the same program: src/server.go and  *)
(* src/unnamed/part_000.  They share FileReader.Read and loadMarkdownPosts *)
(* and differ in PostData (part_000 has a Date field) and in PostHandler   *)
(* (server.go goes through readAndParse and answers every one of its       *)
(* errors with 404).  The variable build says which of the two runs.       *)
(*                                                                         *)
(* A text is the sequence of its segments between newline characters, so   *)
(* "a\n---\nb" is <<"a", "---", "b">>, "a\n" is <<"a", "">> and the empty  *)
(* text is <<"">>.  Every text is exactly one non-empty sequence.          *)
(***************************************************************************)
EXTENDS Integers, Sequences, FiniteSets, TLC

VARIABLES
    build,      \* which source file is the running program
    fs,         \* the file system below ./markdown: path -> entry
    convertErr, \* the Markdown converter reports an internal fault
    alive,      \* the serving process has not exited
    pc,         \* per request: where its handler stands
    req,        \* per request: the route and the :slug parameter
    local,      \* per request: the handler's local variables
    resp,       \* per request: the responses written to the client
    stages      \* per request: the calls made to the collaborators, in order

vars == <<build, fs, convertErr, alive, pc, req, local, resp, stages>>

Builds == {"server.go", "part_000"}

(***************************************************************************)
(* Bounds.                                                                 *)
(***************************************************************************)
MaxLines == 4      \* segments of a free-form document
MaxKeys == 2       \* lines of the metadata block of a front-matter document
NumRequests == 2   \* request slots of the server

(***************************************************************************)
(* PostData and Author.  Content is the converter's output, a sequence of  *)
(* HTML blocks; the zero value of template.HTML is the empty sequence.     *)
(***************************************************************************)
NoHTML == <<>>

ZeroPostData ==
    [Title |-> "", Slug |-> "", Date |-> "", Description |-> "", Order |-> 0,
     MetaDescription |-> "", MetaPropertyTitle |-> "",
     MetaPropertyDescription |-> "", MetaOgURL |-> "",
     AuthorName |-> "", AuthorEmail |-> "", Content |-> NoHTML]

\* The yaml tags of the struct.  server.go's PostData has no Date field, so
\* there Date is a key like any unknown one and the field stays "".
YamlTags(b) ==
    {"Title", "Slug", "Description", "Order", "MetaDescription",
     "MetaPropertyTitle", "MetaPropertyDescription", "MetaOgURL",
     "author.name", "author.email"}
    \cup (IF b = "part_000" THEN {"Date"} ELSE {})

\* The field a tag names takes the value.
SetField(post, tag, val) ==
    CASE tag = "Title" -> [post EXCEPT !.Title = val]
      [] tag = "Slug" -> [post EXCEPT !.Slug = val]
      [] tag = "Date" -> [post EXCEPT !.Date = val]
      [] tag = "Description" -> [post EXCEPT !.Description = val]
      [] tag = "Order" -> [post EXCEPT !.Order = val]
      [] tag = "MetaDescription" -> [post EXCEPT !.MetaDescription = val]
      [] tag = "MetaPropertyTitle" -> [post EXCEPT !.MetaPropertyTitle = val]
      [] tag = "MetaPropertyDescription" ->
            [post EXCEPT !.MetaPropertyDescription = val]
      [] tag = "MetaOgURL" -> [post EXCEPT !.MetaOgURL = val]
      [] tag = "author.name" -> [post EXCEPT !.AuthorName = val]
      [] tag = "author.email" -> [post EXCEPT !.AuthorEmail = val]

(***************************************************************************)
(* Lines of text.  A mapping line is read through YamlLine: its key, the   *)
(* kind of its scalar and its value.                                       *)
(***************************************************************************)
Delim == "---"
TomlDelim == "+++"

YamlLine ==
    [l \in {"Title: Test", "Slug: test", "Date: today", "Description: d",
            "Order: 3", "Order: high", "MetaDescription: md",
            "MetaPropertyTitle: mt", "MetaPropertyDescription: mpd",
            "MetaOgURL: u", "author: {name: Ann}", "author: {email: a@x}",
            "Extra: e"} |->
        CASE l = "Title: Test" -> [key |-> "Title", int |-> FALSE, val |-> "Test"]
          [] l = "Slug: test" -> [key |-> "Slug", int |-> FALSE, val |-> "test"]
          [] l = "Date: today" -> [key |-> "Date", int |-> FALSE, val |-> "today"]
          [] l = "Description: d" ->
                [key |-> "Description", int |-> FALSE, val |-> "d"]
          [] l = "Order: 3" -> [key |-> "Order", int |-> TRUE, val |-> 3]
          [] l = "Order: high" -> [key |-> "Order", int |-> FALSE, val |-> "high"]
          [] l = "MetaDescription: md" ->
                [key |-> "MetaDescription", int |-> FALSE, val |-> "md"]
          [] l = "MetaPropertyTitle: mt" ->
                [key |-> "MetaPropertyTitle", int |-> FALSE, val |-> "mt"]
          [] l = "MetaPropertyDescription: mpd" ->
                [key |-> "MetaPropertyDescription", int |-> FALSE, val |-> "mpd"]
          [] l = "MetaOgURL: u" -> [key |-> "MetaOgURL", int |-> FALSE, val |-> "u"]
          [] l = "author: {name: Ann}" ->
                [key |-> "author.name", int |-> FALSE, val |-> "Ann"]
          [] l = "author: {email: a@x}" ->
                [key |-> "author.email", int |-> FALSE, val |-> "a@x"]
          [] l = "Extra: e" -> [key |-> "Extra", int |-> FALSE, val |-> "e"]]

KeyLines == DOMAIN YamlLine

\* The lines free-form documents are built from.
CoreLines == {Delim, "", "text", TomlDelim, "Title: Test", "Order: high"}

Texts(alphabet, n) == UNION {[1..k -> alphabet] : k \in 1..n}

EmptyText == <<"">>

(***************************************************************************)
(* yaml.Unmarshal of a block into a zero PostData.  A leading --- is the   *)
(* document start marker; blank lines carry nothing; a line that is no     *)
(* mapping entry makes the block a scalar or a syntax error; an entry of   *)
(* an unknown key is skipped; Order wants an integer scalar.  A key given  *)
(* twice takes its last value.                                             *)
(***************************************************************************)
YamlSkipped(block, i) == block[i] = "" \/ (i = 1 /\ block[i] = Delim)

YamlSyntaxOK(block) ==
    \A i \in 1..Len(block) : YamlSkipped(block, i) \/ block[i] \in KeyLines

YamlTypeOK(b, l) ==
    LET e == YamlLine[l] IN
    e.key \in YamlTags(b) => (e.int <=> e.key = "Order")

RECURSIVE YamlDecode(_, _, _, _)
YamlDecode(b, block, i, post) ==
    IF i > Len(block) THEN post
    ELSE IF YamlSkipped(block, i) THEN YamlDecode(b, block, i + 1, post)
    ELSE LET e == YamlLine[block[i]] IN
         IF e.key \in YamlTags(b) /\ YamlTypeOK(b, block[i])
         THEN YamlDecode(b, block, i + 1, SetField(post, e.key, e.val))
         ELSE YamlDecode(b, block, i + 1, post)

Unmarshal(b, block) ==
    IF ~YamlSyntaxOK(block) THEN [err |-> TRUE, post |-> ZeroPostData]
    ELSE [err |-> \E i \in 1..Len(block) :
                     ~YamlSkipped(block, i) /\ ~YamlTypeOK(b, block[i]),
          post |-> YamlDecode(b, block, 1, ZeroPostData)]

\* The TOML decoder of the front-matter library: none of the model's lines
\* is a TOML key/value pair, so only a block of blank lines decodes.
TomlUnmarshal(b, block) ==
    [err |-> \E i \in 1..Len(block) : block[i] # "", post |-> ZeroPostData]

(***************************************************************************)
(* goldmark's Convert on the model's lines: blank lines end a paragraph,   *)
(* --- under a paragraph makes it a setext heading and is a thematic break *)
(* elsewhere, every other line opens or continues a paragraph.             *)
(***************************************************************************)
RECURSIVE Blocks(_, _, _, _)
Blocks(md, i, done, para) ==
    LET flush == IF para = <<>> THEN done
                 ELSE Append(done, [tag |-> "p", lines |-> para]) IN
    IF i > Len(md) THEN flush
    ELSE IF md[i] = "" THEN Blocks(md, i + 1, flush, <<>>)
    ELSE IF md[i] = Delim
         THEN IF para = <<>>
              THEN Blocks(md, i + 1, Append(done, [tag |-> "hr", lines |-> <<>>]), <<>>)
              ELSE Blocks(md, i + 1, Append(done, [tag |-> "h2", lines |-> para]), <<>>)
    ELSE Blocks(md, i + 1, done, Append(para, md[i]))

Convert(fault, md) ==
    IF fault THEN [err |-> TRUE, html |-> NoHTML]
    ELSE [err |-> FALSE, html |-> Blocks(md, 1, <<>>, <<>>)]

(***************************************************************************)
(* strings.SplitN(content, "\n---\n", 2): the text is cut at the first     *)
(* --- segment that has a newline on both sides, i.e. that is neither the  *)
(* first nor the last segment.                                             *)
(***************************************************************************)
SplitAt(content) == {i \in 2..(Len(content) - 1) : content[i] = Delim}

SplitN(content) ==
    IF SplitAt(content) = {} THEN <<content>>
    ELSE LET i == CHOOSE j \in SplitAt(content) :
                     \A k \in SplitAt(content) : j <= k IN
         <<SubSeq(content, 1, i - 1), SubSeq(content, i + 1, Len(content))>>

(***************************************************************************)
(* frontmatter.Parse.  detect reads lines up to the first non-blank one;   *)
(* it finds no format when that line is the text's last segment (read at   *)
(* end of input) or opens no format.  extract reads on to the first line   *)
(* equal to the format's end, decodes the lines between the two and leaves *)
(* the rest as the body; when the input ends first, nothing is decoded and *)
(* the whole text is the body.  Of the library's formats the model has     *)
(* YAML between --- lines and TOML between +++ lines.                      *)
(***************************************************************************)
Formats == {[start |-> Delim, end |-> Delim, kind |-> "yaml"],
            [start |-> TomlDelim, end |-> TomlDelim, kind |-> "toml"]}

Least(S) == CHOOSE j \in S : \A k \in S : j <= k

DetectLine(text) ==
    Least({k \in 1..Len(text) : k = Len(text) \/ text[k] # ""})

Detect(text) ==
    LET k == DetectLine(text) IN
    IF k = Len(text) THEN {}
    ELSE {f \in Formats : f.start = text[k]}

ExtractEnd(text, f) ==
    {j \in (DetectLine(text) + 1)..Len(text) : text[j] = f.end}

FrontmatterParse(b, text) ==
    LET none == [err |-> FALSE, post |-> ZeroPostData, rest |-> text,
                 decoded |-> FALSE]
        fmts == Detect(text)
    IN  IF fmts = {} THEN none
        ELSE LET f == CHOOSE g \in fmts : TRUE
                 k == DetectLine(text)
             IN  IF ExtractEnd(text, f) = {} THEN none
                 ELSE LET j == Least(ExtractEnd(text, f))
                          block == SubSeq(text, k + 1, j - 1)
                          d == IF f.kind = "yaml" THEN Unmarshal(b, block)
                               ELSE TomlUnmarshal(b, block)
                      IN  IF d.err
                          THEN [err |-> TRUE, post |-> d.post, rest |-> EmptyText,
                                decoded |-> TRUE]
                          ELSE [err |-> FALSE, post |-> d.post,
                                rest |-> IF j = Len(text) THEN EmptyText
                                         ELSE SubSeq(text, j + 1, Len(text)),
                                decoded |-> TRUE]

(***************************************************************************)
(* The file system below the working directory.  WalkOrder lists the paths *)
(* the model knows in the order filepath.Walk meets them (lexical, depth   *)
(* first).  s.md may be a file or a directory.                             *)
(***************************************************************************)
Root == "markdown"

WalkOrder ==
    <<"markdown", "markdown/a.md", "markdown/b.md", "markdown/n.txt",
      "markdown/s.md", "markdown/s.md/c.md">>

Paths == {WalkOrder[i] : i \in 1..Len(WalkOrder)}

Parent(p) ==
    CASE p = "markdown/s.md/c.md" -> "markdown/s.md"
      [] OTHER -> Root

\* strings.HasSuffix(info.Name(), ".md")
HasSuffixMd(p) ==
    p \in {"markdown/a.md", "markdown/b.md", "markdown/s.md", "markdown/s.md/c.md"}

\* ok: the file can be read, the directory can be listed.
Absent == [kind |-> "absent", ok |-> FALSE, text |-> EmptyText]
Dir(ok) == [kind |-> "dir", ok |-> ok, text |-> EmptyText]
File(ok, text) == [kind |-> "file", ok |-> ok, text |-> text]

RECURSIVE Exists(_, _)
Exists(f, p) ==
    /\ f[p].kind # "absent"
    /\ p # Root => (f[Parent(p)].kind = "dir" /\ Exists(f, Parent(p)))

(***************************************************************************)
(* FileReader.Read: os.Open("markdown/" + slug + ".md") and io.ReadAll.    *)
(* Opening fails when the path does not exist; reading fails on a          *)
(* directory and on an unreadable file.                                    *)
(***************************************************************************)
Slugs == {"a", "s", "zz"}

SlugPath(slug) == "markdown/" \o slug \o ".md"

Read(f, slug) ==
    LET p == SlugPath(slug) IN
    IF p \in Paths /\ Exists(f, p) /\ f[p].kind = "file" /\ f[p].ok
    THEN [err |-> FALSE, text |-> f[p].text]
    ELSE [err |-> TRUE, text |-> EmptyText]

(***************************************************************************)
(* The callback loadMarkdownPosts hands to filepath.Walk.                  *)
(***************************************************************************)
WalkFile_elseUnconverted(b, content, fault) ==
    LET split == SplitN(content) IN
    IF Len(split) > 1
    THEN LET d == Unmarshal(b, split[1])
             c == Convert(fault, split[2])
         IN  IF d.err
             THEN [err |-> TRUE, post |-> d.post, calls |-> <<"decode">>]
             ELSE IF c.err
             THEN [err |-> TRUE, post |-> d.post, calls |-> <<"decode", "convert">>]
             ELSE [err |-> FALSE, post |-> [d.post EXCEPT !.Content = c.html],
                   calls |-> <<"decode", "convert">>]
    ELSE LET c == Convert(fault, content) IN
         IF c.err
         THEN [err |-> TRUE, post |-> ZeroPostData, calls |-> <<"convert">>]
         ELSE [err |-> FALSE, post |-> ZeroPostData, calls |-> <<"convert">>]

\* One .md file's content: split, decode, convert (the if/else on len(split)).
WalkFile(b, content, fault) ==
    LET split == SplitN(content) IN
    IF Len(split) > 1
    THEN LET d == Unmarshal(b, split[1])
             c == Convert(fault, split[2])
         IN  IF d.err
             THEN [err |-> TRUE, post |-> d.post, calls |-> <<"decode">>]
             ELSE IF c.err
             THEN [err |-> TRUE, post |-> d.post, calls |-> <<"decode", "convert">>]
             ELSE [err |-> FALSE, post |-> [d.post EXCEPT !.Content = c.html],
                   calls |-> <<"decode", "convert">>]
    ELSE LET c == Convert(fault, content) IN
         IF c.err
         THEN [err |-> TRUE, post |-> ZeroPostData, calls |-> <<"convert">>]
         ELSE [err |-> FALSE, post |-> [ZeroPostData EXCEPT !.Content = c.html],
               calls |-> <<"convert">>]

WalkFn_anyFile(b, p, e, fault) ==
    LET skip == [err |-> FALSE, add |-> <<>>, calls |-> <<>>]
        fail == [err |-> TRUE, add |-> <<>>, calls |-> <<>>]
    IN  IF e.kind = "absent" THEN fail
        ELSE IF e.kind = "dir" THEN (IF e.ok THEN skip ELSE fail)
        ELSE IF ~e.ok THEN fail
        ELSE LET w == WalkFile(b, e.text, fault) IN
             [err |-> w.err, add |-> IF w.err THEN <<>> ELSE <<w.post>>,
              calls |-> w.calls]

\* The callback on one path: the error filepath.Walk passes in (the root is
\* missing, a directory cannot be listed), the IsDir and suffix test, the read.
WalkFn(b, p, e, fault) ==
    LET skip == [err |-> FALSE, add |-> <<>>, calls |-> <<>>]
        fail == [err |-> TRUE, add |-> <<>>, calls |-> <<>>]
    IN  IF e.kind = "absent" THEN fail
        ELSE IF e.kind = "dir" THEN (IF e.ok THEN skip ELSE fail)
        ELSE IF ~HasSuffixMd(p) THEN skip
        ELSE IF ~e.ok THEN fail
        ELSE LET w == WalkFile(b, e.text, fault) IN
             [err |-> w.err, add |-> IF w.err THEN <<>> ELSE <<w.post>>,
              calls |-> w.calls]

\* The paths filepath.Walk calls the callback on: the root, and every entry
\* of a directory it could list.
RECURSIVE Visited(_, _)
Visited(f, p) ==
    \/ p = Root
    \/ /\ f[p].kind # "absent"
       /\ f[Parent(p)].kind = "dir" /\ f[Parent(p)].ok
       /\ Visited(f, Parent(p))

\* The place in WalkOrder of the next path after place i, 0 when there is none.
NextVisit(f, i) ==
    LET S == {j \in (i + 1)..Len(WalkOrder) : Visited(f, WalkOrder[j])} IN
    IF S = {} THEN 0 ELSE Least(S)

(***************************************************************************)
(* Requests.  A slot holds one request from its arrival to its end.        *)
(***************************************************************************)
Requests == 1..NumRequests

NoRequest == [route |-> "none", slug |-> ""]

ZeroLocal ==
    [postMarkdown |-> EmptyText, post |-> ZeroPostData, remainingMd |-> EmptyText,
     i |-> 0, acc |-> <<>>, posts |-> <<>>, err |-> FALSE]

\* ctx.String(status, text) and ctx.HTML(status, template, data)
String(status, text) ==
    [status |-> status, text |-> text, template |-> "", data |-> <<>>]
HTML(status, template, data) ==
    [status |-> status, text |-> "", template |-> template, data |-> data]

StatusOK == 200
StatusNotFound == 404
StatusInternalServerError == 500

Quiet == \A r \in Requests : pc[r] \in {"idle", "done"}

\* The router hands a request to its handler.
Arrive(r, route, slug) ==
    /\ alive
    /\ pc[r] = "idle"
    /\ req' = [req EXCEPT ![r] = [route |-> route, slug |-> slug]]
    /\ pc' = [pc EXCEPT ![r] = CASE route = "post" -> "read"
                                 [] route = "index" -> "walk"
                                 [] route = "static" -> "static"]
    /\ UNCHANGED <<build, fs, convertErr, alive, local, resp, stages>>

\* The slot is free again once its request has ended.
Release(r) ==
    /\ alive
    /\ pc[r] = "done"
    /\ pc' = [pc EXCEPT ![r] = "idle"]
    /\ req' = [req EXCEPT ![r] = NoRequest]
    /\ local' = [local EXCEPT ![r] = ZeroLocal]
    /\ resp' = [resp EXCEPT ![r] = <<>>]
    /\ stages' = [stages EXCEPT ![r] = <<>>]
    /\ UNCHANGED <<build, fs, convertErr, alive>>

(***************************************************************************)
(* GET /posts/:slug, the closure PostHandler returns.                      *)
(***************************************************************************)
\* The response to a failure of frontmatter.Parse: server.go's handler only
\* sees readAndParse's error and answers 404, part_000's answers 500.
ParseFailure(b) ==
    IF b = "server.go" THEN String(StatusNotFound, "Post not found")
    ELSE String(StatusInternalServerError, "Error parsing frontmatter")

PostRead_cached(r) ==
    /\ alive
    /\ pc[r] = "read"
    /\ LET seen == {q \in Requests \ {r} :
                       /\ pc[q] = "done" /\ req[q] = req[r]
                       /\ local[q].postMarkdown # EmptyText}
           got == IF seen # {}
                  THEN [err |-> FALSE,
                        text |-> local[CHOOSE q \in seen : TRUE].postMarkdown]
                  ELSE Read(fs, req[r].slug)
       IN
       /\ stages' = [stages EXCEPT ![r] = Append(@, "read")]
       /\ IF got.err
          THEN /\ resp' = [resp EXCEPT ![r] =
                              Append(@, String(StatusNotFound, "Post not found"))]
               /\ pc' = [pc EXCEPT ![r] = "done"]
               /\ UNCHANGED local
          ELSE /\ local' = [local EXCEPT ![r].postMarkdown = got.text]
               /\ pc' = [pc EXCEPT ![r] = "parse"]
               /\ UNCHANGED resp
    /\ UNCHANGED <<build, fs, convertErr, alive, req>>

\* sl.Read(slug)
PostRead(r) ==
    /\ alive
    /\ pc[r] = "read"
    /\ LET got == Read(fs, req[r].slug) IN
       /\ stages' = [stages EXCEPT ![r] = Append(@, "read")]
       /\ IF got.err
          THEN /\ resp' = [resp EXCEPT ![r] =
                              Append(@, String(StatusNotFound, "Post not found"))]
               /\ pc' = [pc EXCEPT ![r] = "done"]
               /\ UNCHANGED local
          ELSE /\ local' = [local EXCEPT ![r].postMarkdown = got.text]
               /\ pc' = [pc EXCEPT ![r] = "parse"]
               /\ UNCHANGED resp
    /\ UNCHANGED <<build, fs, convertErr, alive, req>>

PostParse_noReturn(r) ==
    /\ alive
    /\ pc[r] = "parse"
    /\ LET got == FrontmatterParse(build, local[r].postMarkdown) IN
       /\ stages' = [stages EXCEPT ![r] =
                        @ \o <<"frontmatter">>
                          \o (IF got.decoded THEN <<"decode">> ELSE <<>>)]
       /\ resp' = IF got.err THEN [resp EXCEPT ![r] = Append(@, ParseFailure(build))]
                  ELSE resp
       /\ local' = [local EXCEPT ![r].post = got.post, ![r].remainingMd = got.rest]
       /\ pc' = [pc EXCEPT ![r] = "render"]
    /\ UNCHANGED <<build, fs, convertErr, alive, req>>

\* frontmatter.Parse(strings.NewReader(postMarkdown), &post)
PostParse(r) ==
    /\ alive
    /\ pc[r] = "parse"
    /\ LET got == FrontmatterParse(build, local[r].postMarkdown) IN
       /\ stages' = [stages EXCEPT ![r] =
                        @ \o <<"frontmatter">>
                          \o (IF got.decoded THEN <<"decode">> ELSE <<>>)]
       /\ IF got.err
          THEN /\ resp' = [resp EXCEPT ![r] = Append(@, ParseFailure(build))]
               /\ pc' = [pc EXCEPT ![r] = "done"]
               /\ local' = [local EXCEPT ![r].post = got.post]
          ELSE /\ local' = [local EXCEPT ![r].post = got.post,
                                         ![r].remainingMd = got.rest]
               /\ pc' = [pc EXCEPT ![r] = "render"]
               /\ UNCHANGED resp
    /\ UNCHANGED <<build, fs, convertErr, alive, req>>

PostRender_shared(r) ==
    /\ alive
    /\ pc[r] = "render"
    /\ LET got == Convert(convertErr, local[r].remainingMd) IN
       /\ stages' = [stages EXCEPT ![r] = Append(@, "convert")]
       /\ IF got.err
          THEN /\ resp' = [resp EXCEPT ![r] =
                              Append(@, String(StatusInternalServerError,
                                               "Error rendering markdown"))]
               /\ pc' = [pc EXCEPT ![r] = "done"]
               /\ UNCHANGED local
          ELSE /\ local' = [q \in Requests |->
                               [local[q] EXCEPT !.post.Content = got.html]]
               /\ pc' = [pc EXCEPT ![r] = "template"]
               /\ UNCHANGED resp
    /\ UNCHANGED <<build, fs, convertErr, alive, req>>

\* mdRenderer.Convert([]byte(remainingMd), &buf) and post.Content = ...
PostRender(r) ==
    /\ alive
    /\ pc[r] = "render"
    /\ LET got == Convert(convertErr, local[r].remainingMd) IN
       /\ stages' = [stages EXCEPT ![r] = Append(@, "convert")]
       /\ IF got.err
          THEN /\ resp' = [resp EXCEPT ![r] =
                              Append(@, String(StatusInternalServerError,
                                               "Error rendering markdown"))]
               /\ pc' = [pc EXCEPT ![r] = "done"]
               /\ UNCHANGED local
          ELSE /\ local' = [local EXCEPT ![r].post.Content = got.html]
               /\ pc' = [pc EXCEPT ![r] = "template"]
               /\ UNCHANGED resp
    /\ UNCHANGED <<build, fs, convertErr, alive, req>>

\* ctx.HTML(http.StatusOK, "post.html", post)
PostHTML(r) ==
    /\ alive
    /\ pc[r] = "template"
    /\ stages' = [stages EXCEPT ![r] = Append(@, "template")]
    /\ resp' = [resp EXCEPT ![r] =
                   Append(@, HTML(StatusOK, "post.html", <<local[r].post>>))]
    /\ pc' = [pc EXCEPT ![r] = "done"]
    /\ UNCHANGED <<build, fs, convertErr, alive, req, local>>

(***************************************************************************)
(* GET /, the closure in main, and loadMarkdownPosts.                      *)
(***************************************************************************)
\* filepath.Walk calls the callback on the next path.
WalkVisit(r) ==
    /\ alive
    /\ pc[r] = "walk"
    /\ NextVisit(fs, local[r].i) # 0
    /\ LET j == NextVisit(fs, local[r].i)
           got == WalkFn(build, WalkOrder[j], fs[WalkOrder[j]], convertErr)
       IN  /\ stages' = [stages EXCEPT ![r] = @ \o got.calls]
           /\ IF got.err
              THEN /\ local' = [local EXCEPT ![r].i = j, ![r].err = TRUE]
                   /\ pc' = [pc EXCEPT ![r] = "return"]
              ELSE /\ local' = [local EXCEPT ![r].i = j,
                                             ![r].acc = @ \o got.add]
                   /\ UNCHANGED pc
    /\ UNCHANGED <<build, fs, convertErr, alive, req, resp>>

LoadResult_partial(acc, err) == acc

\* What loadMarkdownPosts returns after the walk: nil on an error.
LoadResult(acc, err) == IF err THEN <<>> ELSE acc

\* if err != nil { return nil, err }; return posts, nil
LoadReturn(r) ==
    /\ alive
    /\ \/ pc[r] = "return"
       \/ pc[r] = "walk" /\ NextVisit(fs, local[r].i) = 0
    /\ local' = [local EXCEPT ![r].posts = LoadResult(local[r].acc, local[r].err)]
    /\ pc' = [pc EXCEPT ![r] = "loaded"]
    /\ UNCHANGED <<build, fs, convertErr, alive, req, resp, stages>>

\* ctx.HTML(http.StatusOK, "index.html", gin.H{"Posts": posts})
IndexHTML(r) ==
    /\ alive
    /\ pc[r] = "loaded"
    /\ ~local[r].err
    /\ resp' = [resp EXCEPT ![r] =
                   Append(@, HTML(StatusOK, "index.html", local[r].posts))]
    /\ pc' = [pc EXCEPT ![r] = "done"]
    /\ UNCHANGED <<build, fs, convertErr, alive, req, local, stages>>

IndexFatal_respond(r) ==
    /\ alive
    /\ pc[r] = "loaded"
    /\ local[r].err
    /\ resp' = [resp EXCEPT ![r] =
                   Append(@, String(StatusInternalServerError, "listing failed"))]
    /\ pc' = [pc EXCEPT ![r] = "done"]
    /\ UNCHANGED <<build, fs, convertErr, alive, req, local, stages>>

\* log.Fatal(err): the process exits, with every request it was serving.
IndexFatal(r) ==
    /\ alive
    /\ pc[r] = "loaded"
    /\ local[r].err
    /\ alive' = FALSE
    /\ UNCHANGED <<build, fs, convertErr, pc, req, local, resp, stages>>

\* GET /static/*: the router's file server answers.
Static(r) ==
    /\ alive
    /\ pc[r] = "static"
    /\ resp' = [resp EXCEPT ![r] = Append(@, String(StatusOK, "asset"))]
    /\ pc' = [pc EXCEPT ![r] = "done"]
    /\ UNCHANGED <<build, fs, convertErr, alive, req, local, stages>>

(***************************************************************************)
(* The environment: a file below ./markdown is created, rewritten or       *)
(* deleted between requests.                                               *)
(***************************************************************************)
Good == <<Delim, "Title: Test", Delim, "text">>
Malformed == <<Delim, "Order: high", Delim, "text">>
Plain == <<"text", "">>
Rule == <<"text", Delim, "text">>

SampleDocs == {Good, Malformed, Plain, Rule}

FileEntries == {Absent, File(FALSE, EmptyText)} \cup {File(TRUE, d) : d \in SampleDocs}

SecondEntries == {Absent, File(TRUE, Good), File(TRUE, Malformed)}

ChangeFile(p, e) ==
    /\ Quiet
    /\ fs[p] # e
    /\ fs' = [fs EXCEPT ![p] = e]
    /\ UNCHANGED <<build, convertErr, alive, pc, req, local, resp, stages>>

(***************************************************************************)
(* The server: requests arrive on any route, are handled concurrently, and *)
(* markdown/a.md and markdown/b.md change between them.                    *)
(***************************************************************************)
EmptyTree == [p \in Paths |-> IF p = Root THEN Dir(TRUE) ELSE Absent]

InitRequests ==
    /\ alive = TRUE
    /\ pc = [r \in Requests |-> "idle"]
    /\ req = [r \in Requests |-> NoRequest]
    /\ local = [r \in Requests |-> ZeroLocal]
    /\ resp = [r \in Requests |-> <<>>]
    /\ stages = [r \in Requests |-> <<>>]

Init ==
    /\ build \in Builds
    /\ convertErr \in BOOLEAN
    /\ fs \in {[EmptyTree EXCEPT !["markdown/a.md"] = e, !["markdown/b.md"] = d] :
                   e \in FileEntries, d \in SecondEntries}
    /\ InitRequests

Handle(r) ==
    \/ PostRead(r)
    \/ PostParse(r)
    \/ PostRender(r)
    \/ PostHTML(r)
    \/ WalkVisit(r)
    \/ LoadReturn(r)
    \/ IndexHTML(r)
    \/ IndexFatal(r)
    \/ Static(r)

Next ==
    \/ \E r \in Requests : \E s \in {"a", "zz"} : Arrive(r, "post", s)
    \/ \E r \in Requests : Arrive(r, "index", "")
    \/ \E r \in Requests : Arrive(r, "static", "")
    \/ \E r \in Requests : Handle(r)
    \/ \E r \in Requests : Release(r)
    \/ \E e \in FileEntries : ChangeFile("markdown/a.md", e)
    \/ \E e \in SecondEntries : ChangeFile("markdown/b.md", e)

Spec == Init /\ [][Next]_vars

(***************************************************************************)
(* Assembly: one request, listing or single post, over every document up   *)
(* to the bounds (as markdown/a.md) and over a family of directory trees.  *)
(***************************************************************************)
Example == <<Delim, "Title: Test", "Slug: test", "Order: 3", Delim, "">>

FrontMatterDocs ==
    {<<Delim>> \o block \o <<Delim, "text">> :
        block \in {<<>>} \cup Texts(KeyLines \cup {""}, MaxKeys)}

Docs == Texts(CoreLines, MaxLines) \cup FrontMatterDocs \cup {Example}

DocTrees == {[EmptyTree EXCEPT !["markdown/a.md"] = File(TRUE, d)] : d \in Docs}

\* An entry exists only inside a directory.
TreeOK(f) == \A p \in Paths \ {Root} : f[p] # Absent => f[Parent(p)].kind = "dir"

WalkTrees ==
    {f \in [Paths -> FileEntries \cup {Dir(TRUE), Dir(FALSE)}] :
        /\ TreeOK(f)
        /\ f[Root] \in {Absent, Dir(TRUE), Dir(FALSE)}
        /\ f["markdown/a.md"].kind # "dir"
        /\ f["markdown/b.md"] \in SecondEntries
        /\ f["markdown/n.txt"] \in {Absent, File(TRUE, Good), Dir(TRUE)}
        /\ f["markdown/s.md/c.md"].kind # "dir"}

InitAssembly ==
    /\ build \in Builds
    /\ convertErr \in BOOLEAN
    /\ fs \in DocTrees \cup WalkTrees
    /\ InitRequests

NextAssembly ==
    \/ \E s \in Slugs : Arrive(1, "post", s)
    \/ Arrive(1, "index", "")
    \/ Arrive(1, "static", "")
    \/ Handle(1)

SpecAssembly == InitAssembly /\ [][NextAssembly]_vars

(***************************************************************************)
(* What the properties below are stated with.                              *)
(***************************************************************************)
Range(seq) == {seq[i] : i \in 1..Len(seq)}

IsPost(r) == req[r].route = "post"
IsIndex(r) == req[r].route = "index"

\* The one document of a tree that holds nothing but a readable markdown/a.md.
SingleDoc ==
    /\ fs[Root] = Dir(TRUE)
    /\ fs["markdown/a.md"].kind = "file" /\ fs["markdown/a.md"].ok
    /\ \A p \in Paths \ {Root, "markdown/a.md"} : fs[p] = Absent
TheDoc == fs["markdown/a.md"].text

DelimLines(text) == {i \in 1..Len(text) : text[i] = Delim}
AllBlank(text) == \A i \in 1..Len(text) : text[i] = ""

\* The Post of a document without front matter: zero metadata, the whole
\* text converted.
WholeTextPost(text) == [ZeroPostData EXCEPT !.Content = Blocks(text, 1, <<>>, <<>>)]

\* The answer to GET /posts/:slug over tree f, stage by stage.
ExpectedPostResponse(b, f, fault, slug) ==
    LET rd == Read(f, slug)
        fm == FrontmatterParse(b, rd.text)
        cv == Convert(fault, fm.rest)
    IN  IF rd.err THEN String(StatusNotFound, "Post not found")
        ELSE IF fm.err THEN ParseFailure(b)
        ELSE IF cv.err
        THEN String(StatusInternalServerError, "Error rendering markdown")
        ELSE HTML(StatusOK, "post.html", <<[fm.post EXCEPT !.Content = cv.html]>>)

\* The listing of tree f from place i of the walk on, acc assembled so far.
RECURSIVE ExpectedListing(_, _, _, _, _)
ExpectedListing(b, f, fault, i, acc) ==
    IF NextVisit(f, i) = 0 THEN [err |-> FALSE, posts |-> acc]
    ELSE LET j == NextVisit(f, i)
             got == WalkFn(b, WalkOrder[j], f[WalkOrder[j]], fault)
         IN  IF got.err THEN [err |-> TRUE, posts |-> <<>>]
             ELSE ExpectedListing(b, f, fault, j, acc \o got.add)

\* The regular files named *.md below the root, in the order of the walk.
IsMdFile(p) == Exists(fs, p) /\ fs[p].kind = "file" /\ HasSuffixMd(p)
MdFiles == SelectSeq(WalkOrder, IsMdFile)

\* The body the listing converts: what follows the first "\n---\n", or all.
BodyOf(text) == LET split == SplitN(text) IN
                IF Len(split) > 1 THEN split[2] ELSE text

(***************************************************************************)
(* C1.  The status of GET /posts/:slug is decided by the first stage that  *)
(* fails: 404 when the document cannot be read, 500 when its metadata      *)
(* block does not decode or the conversion fails, 200 with post.html       *)
(* otherwise.  A document that is read but malformed never gives 404.      *)
(***************************************************************************)
C1_ClaimedStatus(b, f, fault, slug) ==
    LET rd == Read(f, slug)
        fm == FrontmatterParse(b, rd.text)
    IN  IF rd.err THEN StatusNotFound
        ELSE IF fm.err \/ Convert(fault, fm.rest).err THEN StatusInternalServerError
        ELSE StatusOK

C1_StatusByFirstFailure ==
    \A r \in Requests :
        IsPost(r) /\ pc[r] = "done" =>
            /\ Len(resp[r]) = 1
            /\ resp[r][1].status = C1_ClaimedStatus(build, fs, convertErr, req[r].slug)
            /\ resp[r][1].status = StatusOK => resp[r][1].template = "post.html"

(***************************************************************************)
(* C2.  Listing assembly is all-or-nothing: when the callback fails on any *)
(* path the walk meets, loadMarkdownPosts returns the error and a nil      *)
(* sequence, whatever was assembled before; without a failure it returns   *)
(* what was assembled.                                                     *)
(***************************************************************************)
C2_SomePathFails ==
    \E j \in 1..Len(WalkOrder) :
        /\ Visited(fs, WalkOrder[j])
        /\ WalkFn(build, WalkOrder[j], fs[WalkOrder[j]], convertErr).err

C2_AllOrNothing ==
    \A r \in Requests :
        IsIndex(r) /\ pc[r] = "loaded" =>
            /\ local[r].err <=> C2_SomePathFails
            /\ local[r].err => local[r].posts = <<>>
            /\ ~local[r].err => local[r].posts = local[r].acc

\* A listing that failed after two documents had been assembled.
C2_Witness ==
    \E r \in Requests :
        /\ IsIndex(r) /\ pc[r] = "loaded" /\ local[r].err
        /\ Len(local[r].acc) = 2 /\ local[r].posts = <<>>

(***************************************************************************)
(* C3 as claimed.  A listing that succeeds holds one Post per regular .md  *)
(* file below the root, in walk order, and a Post whose body is not the    *)
(* empty text has content.                                                 *)
(***************************************************************************)
C3_NonEmptyBodyHasContent ==
    \A r \in Requests :
        IsIndex(r) /\ pc[r] = "loaded" /\ ~local[r].err =>
            /\ Len(local[r].posts) = Len(MdFiles)
            /\ \A k \in 1..Len(local[r].posts) :
                  BodyOf(fs[MdFiles[k]].text) # EmptyText =>
                      local[r].posts[k].Content # NoHTML

(***************************************************************************)
(* C3 as amended.  A listing that succeeds holds one Post per regular .md  *)
(* file below the root, in walk order, none for a directory or a file of   *)
(* another name; each Post's content is the conversion of its body, and is *)
(* empty exactly when the body has only blank lines.                       *)
(***************************************************************************)
C3_OnePostPerMdFile ==
    \A r \in Requests :
        IsIndex(r) /\ pc[r] = "loaded" /\ ~local[r].err =>
            /\ Len(local[r].posts) = Len(MdFiles)
            /\ \A k \in 1..Len(local[r].posts) :
                  LET body == BodyOf(fs[MdFiles[k]].text) IN
                  /\ local[r].posts[k].Content = Blocks(body, 1, <<>>, <<>>)
                  /\ local[r].posts[k].Content = NoHTML <=> AllBlank(body)

\* A listing of three posts, one from a directory that is itself named *.md,
\* beside a file of another name.
C3_Witness ==
    \E r \in Requests :
        /\ IsIndex(r) /\ pc[r] = "loaded" /\ ~local[r].err
        /\ Len(local[r].posts) = 3
        /\ fs["markdown/s.md"].kind = "dir"
        /\ fs["markdown/n.txt"].kind = "file"

(***************************************************************************)
(* C4.  A document with exactly one --- line has no front matter, in the   *)
(* listing and in the single post alike: the decoder is not called, the    *)
(* metadata is zero, the whole text is converted, nothing fails.  (Stated  *)
(* for a converter that works and a document without a +++ line.)          *)
(***************************************************************************)
C4_OneDelimiterNoFrontMatter ==
    (/\ SingleDoc /\ ~convertErr
     /\ Cardinality(DelimLines(TheDoc)) = 1
     /\ TomlDelim \notin Range(TheDoc))
    => \A r \in Requests :
        /\ IsPost(r) /\ req[r].slug = "a" /\ pc[r] = "done" =>
              /\ "decode" \notin Range(stages[r])
              /\ resp[r] = <<HTML(StatusOK, "post.html", <<WholeTextPost(TheDoc)>>)>>
        /\ IsIndex(r) /\ pc[r] = "loaded" =>
              /\ "decode" \notin Range(stages[r])
              /\ ~local[r].err
              /\ local[r].posts = <<WholeTextPost(TheDoc)>>

C5_OpensOtherFormat(text) == Detect(text) # {}

C6_WellFormedLine(l) == l = "" \/ (l \in KeyLines /\ l # "Order: high")

C6_Keys(block) == {YamlLine[l].key : l \in Range(block) \cap KeyLines}

\* --- block --- body, the block of well-formed lines, no key twice.
C6_WellFormedDoc(text) ==
    /\ Len(text) >= 3 /\ text[1] = Delim
    /\ \E j \in 2..(Len(text) - 1) :
          /\ text[j] = Delim
          /\ \A i \in 2..(j - 1) : C6_WellFormedLine(text[i])
          /\ \A i, k \in 2..(j - 1) :
                (i # k /\ text[i] # "") => text[i] # text[k]

C6_Block(text) ==
    SubSeq(text, 2, Least({j \in 2..Len(text) : text[j] = Delim}) - 1)

C6_Value(block, key, zero) ==
    IF key \in C6_Keys(block)
    THEN YamlLine[CHOOSE l \in Range(block) \cap KeyLines : YamlLine[l].key = key].val
    ELSE zero

C6_Metadata(block) ==
    [Title |-> C6_Value(block, "Title", ""),
     Slug |-> C6_Value(block, "Slug", ""),
     Date |-> C6_Value(block, "Date", ""),
     Description |-> C6_Value(block, "Description", ""),
     Order |-> C6_Value(block, "Order", 0),
     MetaDescription |-> C6_Value(block, "MetaDescription", ""),
     MetaPropertyTitle |-> C6_Value(block, "MetaPropertyTitle", ""),
     MetaPropertyDescription |-> C6_Value(block, "MetaPropertyDescription", ""),
     MetaOgURL |-> C6_Value(block, "MetaOgURL", ""),
     AuthorName |-> C6_Value(block, "author.name", ""),
     AuthorEmail |-> C6_Value(block, "author.email", ""),
     Content |-> NoHTML]

C6_EveryKeyDecoded ==
    (SingleDoc /\ C6_WellFormedDoc(TheDoc))
    => \A r \in Requests :
        IsPost(r) /\ req[r].slug = "a" /\ pc[r] \in {"render", "template", "done"} =>
            [local[r].post EXCEPT !.Content = NoHTML] = C6_Metadata(C6_Block(TheDoc))

(***************************************************************************)
(* C7.  A listing failure during GET / ends the process: the failing       *)
(* request is never answered and can do nothing but exit; once the process *)
(* has exited no request, in flight or new, is answered or moves; and the  *)
(* process exits for no other reason, so never for a failure of            *)
(* GET /posts/:slug.                                                       *)
(***************************************************************************)
C7_ListingFailed(r) == IsIndex(r) /\ pc[r] = "loaded" /\ local[r].err

C7_ListingFailureIsFatal ==
    /\ [](\A r \in Requests :
            IsIndex(r) /\ local[r].err => resp[r] = <<>> /\ pc[r] # "done")
    /\ [][\A r \in Requests :
            C7_ListingFailed(r) =>
                \/ pc'[r] = pc[r] /\ resp'[r] = resp[r] /\ alive' = alive
                \/ ~alive']_vars
    /\ [][~alive => (~alive' /\ resp' = resp /\ pc' = pc)]_vars
    /\ [][(alive /\ ~alive') => \E r \in Requests : C7_ListingFailed(r)]_vars

\* The process has exited on a failed listing while a post request that had
\* read its document was in flight; neither has an answer.
C7_Witness ==
    /\ ~alive
    /\ \E r, q \in Requests :
          /\ C7_ListingFailed(r) /\ resp[r] = <<>>
          /\ IsPost(q) /\ pc[q] \in {"parse", "render", "template"}
          /\ resp[q] = <<>>

(***************************************************************************)
(* C8.  Nothing is cached between requests: whenever a request is          *)
(* answered, the answer is the one the directory as it is then gives, also *)
(* after earlier requests and after files were created, rewritten or       *)
(* deleted.                                                                *)
(***************************************************************************)
ExpectedResponse(r) ==
    IF IsPost(r)
    THEN ExpectedPostResponse(build, fs, convertErr, req[r].slug)
    ELSE HTML(StatusOK, "index.html",
              ExpectedListing(build, fs, convertErr, 0, <<>>).posts)

C8_NoCaching ==
    [][\A r \in Requests :
          (IsPost(r) \/ IsIndex(r)) /\ resp'[r] # resp[r] /\ resp'[r] # <<>> =>
              resp'[r] = <<ExpectedResponse(r)>>]_vars

\* Two requests for the same post were answered differently: the file
\* changed between them, and the later answer shows it.
C8_Witness ==
    \E r, q \in Requests :
        /\ IsPost(r) /\ req[q] = req[r]
        /\ pc[r] = "done" /\ pc[q] = "done"
        /\ resp[r][1].status = StatusOK /\ resp[q][1].status = StatusOK
        /\ resp[r] # resp[q]

(***************************************************************************)
(* C9.  Concurrent requests do not interfere: after every step of a        *)
(* request, under every interleaving, its local variables and its answer   *)
(* are those of the same request run alone over the same directory; a step *)
(* writes the state of one request only, and no handler step writes the    *)
(* directory.                                                              *)
(***************************************************************************)
RECURSIVE ExpectedPrefix(_, _, _, _)
ExpectedPrefix(b, f, fault, i) ==
    IF i = 0 THEN <<>>
    ELSE ExpectedPrefix(b, f, fault, i - 1)
         \o (IF Visited(f, WalkOrder[i])
             THEN WalkFn(b, WalkOrder[i], f[WalkOrder[i]], fault).add
             ELSE <<>>)

\* Request rq at place p of its handler, with locals l and answers rs, is
\* where a run alone over the directory would be.
C9_AsAlone(rq, p, l, rs) ==
    LET rd == Read(fs, rq.slug)
        fm == FrontmatterParse(build, rd.text)
        cv == Convert(convertErr, fm.rest)
        ls == ExpectedListing(build, fs, convertErr, 0, <<>>)
    IN  /\ rq.route = "post" =>
            /\ p = "parse" => ~rd.err /\ l.postMarkdown = rd.text
            /\ p = "render" => ~fm.err /\ l.post = fm.post /\ l.remainingMd = fm.rest
            /\ p = "template" =>
                  ~cv.err /\ l.post = [fm.post EXCEPT !.Content = cv.html]
            /\ p = "done" =>
                  rs = <<ExpectedPostResponse(build, fs, convertErr, rq.slug)>>
        /\ rq.route = "index" =>
            /\ p \in {"walk", "return"} =>
                  /\ l.acc = ExpectedPrefix(build, fs, convertErr, l.i)
                  /\ l.err <=> p = "return"
            /\ p = "loaded" => l.err = ls.err /\ l.posts = ls.posts
            /\ p = "done" => ~ls.err /\ rs = <<HTML(StatusOK, "index.html", ls.posts)>>

C9_Changed(r) ==
    \/ pc'[r] # pc[r] \/ req'[r] # req[r] \/ local'[r] # local[r]
    \/ resp'[r] # resp[r] \/ stages'[r] # stages[r]

StageRank == [read |-> 1, frontmatter |-> 2, decode |-> 3, convert |-> 4, template |-> 5]

C10_StagesInOrderFirstFailureEnds ==
    \A r \in Requests :
        IsPost(r) =>
            LET st == stages[r]
                called == Range(st)
                last == st[Len(st)]
            IN  /\ \A i, j \in 1..Len(st) : i < j => StageRank[st[i]] < StageRank[st[j]]
                /\ "frontmatter" \in called => "read" \in called
                /\ "decode" \in called => "frontmatter" \in called
                /\ "convert" \in called => "frontmatter" \in called
                /\ "template" \in called => "convert" \in called
                /\ Len(resp[r]) <= 1
                /\ Len(resp[r]) = 1 <=> pc[r] = "done"
                /\ (pc[r] = "done" /\ resp[r][1].status # StatusOK) =>
                      /\ "template" \notin called
                      /\ resp[r][1].template = "" /\ resp[r][1].data = <<>>
                      /\ last = "read" =>
                            resp[r][1] = String(StatusNotFound, "Post not found")
                      /\ last \in {"frontmatter", "decode"} =>
                            resp[r][1] = ParseFailure(build)
                      /\ last = "convert" =>
                            resp[r][1] = String(StatusInternalServerError,
                                                "Error rendering markdown")
                /\ "template" \in called =>
                      /\ pc[r] = "done"
                      /\ resp[r] = <<HTML(StatusOK, "post.html", <<local[r].post>>)>>
                      /\ local[r].post.Content =
                            Blocks(local[r].remainingMd, 1, <<>>, <<>>)

\* A request whose metadata was decoded and whose conversion then failed:
\* answered 500, the template never rendered.
C10_Witness ==
    \E r \in Requests :
        /\ IsPost(r) /\ pc[r] = "done"
        /\ stages[r] = <<"read", "frontmatter", "decode", "convert">>
        /\ local[r].post.Title = "Test"
        /\ resp[r] = <<String(StatusInternalServerError, "Error rendering markdown")>>

=============================================================================
